---- MODULE Spec2Model ----
(***************************************************************************)
(* The incremental line-offset cache of the xi-editor python plugin        *)
(* library (xi_plugin/cache.py, class LineCache), together with the peer   *)
(* that serves its get_data requests, and the plugin host around it        *)
(* (xi_plugin/rpc.py, class RpcPeer, and xi_plugin/host.py, class          *)
(* PluginHost).  Strings are sequences of one-character strings; python's  *)
(* 0-based indices are kept in the values and converted where a TLA+       *)
(* sequence is indexed.                                                    *)
(***************************************************************************)
EXTENDS Integers, Sequences, FiniteSets, TLC

\* ------------------------------------------------------------------ bounds
MaxLen == 5      \* longest buffer (bytes) the core ever holds
MaxFetch == 3    \* largest max_size the peer serves per get_data request
MaxText == 1     \* longest replacement text of one edit
MaxRev == 2      \* number of edits delivered (revisions 1..MaxRev)
MaxWordLen == 4  \* longest buffer on which words are looked up
MaxFaultLen == 2 \* longest buffer served by a core that breaks the protocol
MaxBuffers == 2  \* buffers the core opens for the plugin host
MaxHostLen == 1  \* longest buffer the core of the plugin host holds
MaxUpdates == 2  \* update requests the core sends to the plugin host

\* ---------------------------------------------------------------- alphabet
NL == "\n"
Chars == {"a", NL}

\* the characters of the buffers on which words are looked up
WordChars == {"a", " ", NL}

\* the characters str.split() separates words at
Whitespace == {" ", NL}

StrOver(chars, n) == UNION {[1..k -> chars] : k \in 0..n}

Str(n) == StrOver(Chars, n)

\* ------------------------------------------------------ python primitives
Min(a, b) == IF a < b THEN a ELSE b

Max(a, b) == IF a > b THEN a ELSE b

\* s[a:b] for 0 <= a, 0 <= b
Slice(s, a, b) ==
  LET hi == Min(b, Len(s))
  IN IF a < hi THEN SubSeq(s, a + 1, hi) ELSE <<>>

\* s[a:] for 0 <= a
SliceFrom(s, a) == Slice(s, a, Len(s))

\* s[-1] of a non-empty sequence
Last(s) == s[Len(s)]

\* s[:-1]
ButLast(s) == Slice(s, 0, Len(s) - 1)

\* ''.join(lines)
RECURSIVE Concat(_)
Concat(lines) ==
  IF lines = <<>> THEN <<>> ELSE Head(lines) \o Concat(Tail(lines))

\* seq * n
RECURSIVE Repeat(_, _)
Repeat(s, n) == IF n <= 0 THEN <<>> ELSE s \o Repeat(s, n - 1)

\* index (1-based) of the first NL of s, 0 when there is none
FirstNL(s) ==
  IF \E i \in 1..Len(s) : s[i] = NL
  THEN CHOOSE i \in 1..Len(s) : s[i] = NL /\ \A j \in 1..(i - 1) : s[j] # NL
  ELSE 0

\* str.splitlines(True): the lines of s with their terminators kept; [] for ''
RECURSIVE splitlines(_)
splitlines(s) ==
  IF s = <<>> THEN <<>>
  ELSE LET k == FirstNL(s)
       IN IF k = 0 THEN <<s>>
          ELSE <<SubSeq(s, 1, k)>> \o splitlines(SubSeq(s, k + 1, Len(s)))

\* str.rstrip('\n'): every trailing NL removed
RECURSIVE rstrip(_)
rstrip(s) ==
  IF s # <<>> /\ Last(s) = NL THEN rstrip(ButLast(s)) ELSE s

\* index (1-based) of the first whitespace character of s, 0 when there is none
FirstSpace(s) ==
  IF \E i \in 1..Len(s) : s[i] \in Whitespace
  THEN CHOOSE i \in 1..Len(s) :
         s[i] \in Whitespace /\ \A j \in 1..(i - 1) : s[j] \notin Whitespace
  ELSE 0

\* str.split(): the maximal runs of non-whitespace characters of s, in order
RECURSIVE split(_)
split(s) ==
  IF s = <<>> THEN <<>>
  ELSE IF Head(s) \in Whitespace THEN split(Tail(s))
  ELSE LET k == FirstSpace(s)
       IN IF k = 0 THEN <<s>>
          ELSE <<SubSeq(s, 1, k - 1)>> \o split(SubSeq(s, k, Len(s)))

\* bisect.bisect_right(a, x, lo, hi): the binary search as the library runs it
RECURSIVE bisect_right(_, _, _, _)
bisect_right(a, x, lo, hi) ==
  IF lo < hi
  THEN LET mid == (lo + hi) \div 2
       IN IF x < a[mid + 1] THEN bisect_right(a, x, lo, mid)
          ELSE bisect_right(a, x, mid + 1, hi)
  ELSE lo

\* bisect.bisect(a, x)
bisect(a, x) == bisect_right(a, x, 0, Len(a))

\* bisect.bisect_left(a, x, lo, hi)
RECURSIVE bisect_left_loop(_, _, _, _)
bisect_left_loop(a, x, lo, hi) ==
  IF lo < hi
  THEN LET mid == (lo + hi) \div 2
       IN IF a[mid + 1] < x THEN bisect_left_loop(a, x, mid + 1, hi)
          ELSE bisect_left_loop(a, x, lo, mid)
  ELSE lo

bisect_left(a, x) == bisect_left_loop(a, x, 0, Len(a))

\* a[i:j] = b (slice assignment; j < i inserts at i)
SliceAssign(a, i, j, b) ==
  Slice(a, 0, i) \o b \o SliceFrom(a, Max(Min(i, Len(a)), j))

\* ------------------------------------------------------------------- state
VARIABLES
  raw_data,      \* the peer's buffer: the true content at the core
  max_size,      \* the most bytes the peer returns for one request
  peer_end,      \* what the peer answers at the end of its data: "None" or "empty"
  raw_lines,     \* LineCache.raw_lines
  offsets,       \* LineCache.offsets
  total_bytes,   \* LineCache.total_bytes
  revision,      \* LineCache.revision
  call,          \* the last call made on the cache, with its arguments
  err,           \* how that call ended: "ok", an exception, or "hang"
  ret,           \* what it returned (a sequence; <<>> when nothing)
  fetches,       \* the get_data requests it sent to the peer, in order
  pre            \* the cache and the buffer as they were before the call

vars == <<raw_data, max_size, peer_end, raw_lines, offsets, total_bytes, revision,
          call, err, ret, fetches, pre>>

\* the plugin process: RpcPeer, PluginHost and the core at the other end
VARIABLES
  stdin,         \* RpcPeer.stdin: the lines the core wrote that were not read yet
  closed,        \* the core closed the pipe: readline returns '' once stdin is drained
  pending,       \* RpcPeer.pending
  id_counter,    \* RpcPeer.id_counter
  done,          \* RpcPeer.done
  frame,         \* the handler blocked in send_rpc_sync, and where it resumes
  raised,        \* the exception that ended the process ("" while it runs)
  views,         \* PluginHost.views: view_id -> the LineCache of its View (0: no entry)
  caches,        \* the LineCache objects, in order of construction
  core,          \* the core: its buffers, their revisions, its request ids
  arrived,       \* every line readline returned, in order
  handled,       \* every message RpcPeer.handle was called with, in order
  sent,          \* the ids of the synchronous requests written to stdout, in order
  returned,      \* what each send_rpc_sync returned, and on which message
  seen,          \* what each plugin.update callback found in its view's cache
  plugin         \* PluginHost.plugin: the class of the plugin, "Plugin" or "GlobalPlugin"

hostvars == <<stdin, closed, pending, id_counter, done, frame, raised, views, caches,
              core, arrived, handled, sent, returned, seen, plugin>>

allvars == <<vars, hostvars>>

\* -------------------------------------------------------------------- peer
\* MockPeer.get_data: None once from_offset is at or past the end
PeerAtEnd(data, from_offset) == from_offset >= Len(data)

\* MockPeer.get_data: at most max bytes of the buffer from from_offset
PeerGetData(data, from_offset, max) ==
  Slice(data, from_offset, Min(Len(data), from_offset + max))

\* ---------------------------------------------------------------- LineCache
\* a running call: the cache fields, the requests sent so far, the outcome
Running(lines, offs, total, rev) ==
  [raw_lines |-> lines, offsets |-> offs, total_bytes |-> total,
   revision |-> rev, fetches |-> <<>>, err |-> "ok"]

\* LineCache._recalculate_offsets
RECURSIVE Tally(_, _)
Tally(lens, tally) ==
  IF lens = <<>> THEN <<>>
  ELSE <<Head(lens) + tally>> \o Tally(Tail(lens), Head(lens) + tally)

recalculate_offsets(lines) ==
  Tally(<<0>> \o [i \in 1..Len(lines) |-> Len(lines[i])], 0)

\* LineCache.has_missing
has_missing(c) == Last(c.offsets) # c.total_bytes

\* LineCache.get_data: one pass of the while loop, on the peer's answer
get_data_step(c, raw_chunk) ==
  LET chunk == splitlines(raw_chunk)
      lastline == Last(c.raw_lines)
  IN IF lastline = <<>> THEN [c EXCEPT !.err = "IndexError"]
     ELSE IF Last(lastline) # NL
     THEN IF chunk = <<>> THEN [c EXCEPT !.err = "IndexError"]
          ELSE LET rest == Tail(chunk)
                   merged == [c.raw_lines EXCEPT ![Len(c.raw_lines)] = @ \o Head(chunk)]
                   bumped == [c.offsets EXCEPT ![Len(c.offsets)] = @ + Len(Head(chunk))]
               IN [c EXCEPT
                     !.raw_lines = merged \o Repeat(rest, Len(rest)),
                     !.offsets = bumped \o Tally([i \in 1..Len(rest) |-> Len(rest[i])],
                                                 Last(bumped))]
     ELSE [c EXCEPT
             !.raw_lines = @ \o Repeat(chunk, Len(chunk)),
             !.offsets = @ \o Tally([i \in 1..Len(chunk) |-> Len(chunk[i])],
                                    Last(c.offsets))]

\* the loop of get_data run as a single test: one request at most
get_data_once(c, data, max, to_offset) ==
  IF c.err # "ok" \/ ~(to_offset > Last(c.offsets)) THEN c
  ELSE LET from_offset == Last(c.offsets)
           asked == [c EXCEPT !.fetches =
                       Append(@, [offset |-> from_offset, rev |-> c.revision])]
       IN IF PeerAtEnd(data, from_offset)
          THEN [asked EXCEPT !.err = "AttributeError"]
          ELSE get_data_step(asked, PeerGetData(data, from_offset, max))

\* LineCache.get_data(peer, to_offset).  At the end of its data the peer
\* answers None (None.splitlines raises) or '': an empty answer is merged
\* into an unfinished last line (raw_lines[0] of no lines raises) or changes
\* nothing, and the loop then sends the same request for ever (fetches keeps
\* the first repetition)
RECURSIVE get_data(_, _, _, _)
get_data(c, data, max, to_offset) ==
  IF c.err # "ok" \/ ~(to_offset > Last(c.offsets)) THEN c
  ELSE LET from_offset == Last(c.offsets)
           asked == [c EXCEPT !.fetches =
                       Append(@, [offset |-> from_offset, rev |-> c.revision])]
       IN IF PeerAtEnd(data, from_offset)
          THEN IF peer_end = "None" THEN [asked EXCEPT !.err = "AttributeError"]
               ELSE LET d == get_data_step(asked, <<>>)
                    IN IF d.err # "ok" THEN d
                       ELSE [d EXCEPT !.err = "hang",
                                      !.fetches = Append(@, [offset |-> from_offset,
                                                             rev |-> c.revision])]
          ELSE get_data(get_data_step(asked, PeerGetData(data, from_offset, max)),
                        data, max, to_offset)

\* LineCache.__len__: the loop; the count is len(raw_lines) of what it returns
RECURSIVE len_loop(_, _, _)
len_loop(c, data, max) ==
  IF c.err # "ok" \/ ~has_missing(c) THEN c
  ELSE LET d == get_data(c, data, max, c.total_bytes)
       IN IF d.err = "ok" /\ d.offsets = c.offsets /\ d.raw_lines = c.raw_lines
          THEN [d EXCEPT !.err = "hang"]
          ELSE len_loop(d, data, max)

\* LineCache.__getitem__: the loop
RECURSIVE getitem_loop(_, _, _, _)
getitem_loop(c, data, max, idx) ==
  IF c.err # "ok" \/ ~(idx >= Len(c.raw_lines) /\ has_missing(c)) THEN c
  ELSE LET d == get_data(c, data, max, c.total_bytes)
       IN IF d.err = "ok" /\ d.offsets = c.offsets /\ d.raw_lines = c.raw_lines
          THEN [d EXCEPT !.err = "hang"]
          ELSE getitem_loop(d, data, max, idx)

\* LineCache.__getitem__(idx), 0 <= idx: the cache after the call
getitem(c, data, max, idx) ==
  LET d == getitem_loop(c, data, max, idx)
  IN IF d.err = "ok" /\ idx >= Len(d.raw_lines)
     THEN [d EXCEPT !.err = "IndexError"]
     ELSE d

\* total_bytes grown by the text but not shrunk by the deleted span
new_total_bytes_grow_only(total, start, end, new_len) == total + new_len

\* LineCache.apply_update: total_bytes += (start-end) + new_len
new_total_bytes(total, start, end, new_len) == total + (start - end) + new_len

\* the text inserted at start, the replaced bytes of the line kept after it
splice_first_line_keep(orig_first_line, first_line_start, f_end, text) ==
  Slice(orig_first_line, 0, first_line_start) \o text
    \o SliceFrom(orig_first_line, first_line_start)

\* LineCache.apply_update: the first changed line with the text spliced in
splice_first_line(orig_first_line, first_line_start, f_end, text) ==
  Slice(orig_first_line, 0, first_line_start) \o text \o SliceFrom(orig_first_line, f_end)

\* LineCache.apply_update: the offsets of the new lines, from offsets[first_changed_idx]
RECURSIVE fill_offsets(_, _, _, _)
fill_offsets(offs, new_lines, first_changed_idx, idx) ==
  IF idx >= Len(new_lines) THEN offs
  ELSE LET offset_idx == first_changed_idx + idx
       IN fill_offsets([offs EXCEPT ![offset_idx + 2] =
                          offs[offset_idx + 1] + Len(new_lines[idx + 1])],
                       new_lines, first_changed_idx, idx + 1)

\* the offsets after the edit left where they were
shift_offsets_none(offs, offset_to_update, delta) == offs

\* LineCache.apply_update: every offset from offset_to_update on moves by delta
shift_offsets(offs, offset_to_update, delta) ==
  [i \in 1..Len(offs) |-> IF i - 1 >= offset_to_update THEN offs[i] + delta ELSE offs[i]]

\* the search run over all of offsets, the last one included
changed_idx_all(offs, x) == bisect(offs, x) - 1

\* LineCache.apply_update: the index of the line an offset falls in;
\* cannot index past last offset (which is really the bounds of the buffer)
changed_idx(offs, x) == bisect(ButLast(offs), x) - 1

\* LineCache.apply_update, after the assertion and the extension.  revision
\* and total_bytes are assigned first; raw_lines[first_changed_idx] and
\* raw_lines[last_changed_idx] raise IndexError past the end of raw_lines
splice(c, rev, start, end, new_len, text) ==
  LET first_changed_idx == changed_idx(c.offsets, start)
      last_changed_idx == changed_idx(c.offsets, end)
      orig_first_line == c.raw_lines[first_changed_idx + 1]
      first_line_start == start - c.offsets[first_changed_idx + 1]
      f_end == Min(end - c.offsets[first_changed_idx + 1], Len(orig_first_line))
      head_line == splice_first_line(orig_first_line, first_line_start, f_end, text)
      first_line ==
        IF first_changed_idx # last_changed_idx
        THEN head_line \o SliceFrom(c.raw_lines[last_changed_idx + 1],
                                    end - c.offsets[last_changed_idx + 1])
        ELSE head_line
      new_lines == IF splitlines(first_line) = <<>> THEN << <<>> >>
                   ELSE splitlines(first_line)
      zeroed == SliceAssign(c.offsets, first_changed_idx + 1, last_changed_idx + 2,
                            [i \in 1..Len(new_lines) |-> 0])
      filled == fill_offsets(zeroed, new_lines, first_changed_idx, 0)
      shifted == shift_offsets(filled, first_changed_idx + Len(new_lines) + 1,
                               (start - end) + new_len)
  IN IF first_changed_idx >= Len(c.raw_lines)
        \/ (first_changed_idx # last_changed_idx /\ last_changed_idx >= Len(c.raw_lines))
     THEN [c EXCEPT
             !.revision = rev,
             !.total_bytes = new_total_bytes(c.total_bytes, start, end, new_len),
             !.err = "IndexError"]
     ELSE [c EXCEPT
             !.revision = rev,
             !.total_bytes = new_total_bytes(c.total_bytes, start, end, new_len),
             !.offsets = shifted,
             !.raw_lines = SliceAssign(c.raw_lines, first_changed_idx,
                                       last_changed_idx + 1, new_lines)]

\* apply_update without its assertion on the length of text
apply_update_unasserted(c, data, max, rev, start, end, new_len, text) ==
  LET d == IF end > c.total_bytes THEN get_data(c, data, max, end) ELSE c
  IN IF d.err # "ok" THEN d ELSE splice(d, rev, start, end, new_len, text)

\* LineCache.apply_update(peer, author, rev, start, end, new_len, edit_type, text)
apply_update(c, data, max, rev, start, end, new_len, text) ==
  IF Len(text) # new_len THEN [c EXCEPT !.err = "AssertionError"]
  ELSE LET d == IF end > c.total_bytes THEN get_data(c, data, max, end) ELSE c
       IN IF d.err # "ok" THEN d ELSE splice(d, rev, start, end, new_len, text)

\* LineCache.linecol_for_offset: get_data(offset, self.peer) binds the offset
\* to peer and the peer object to to_offset, and the loop test compares the
\* peer object with an integer
get_data_swapped(c) == [c EXCEPT !.err = "TypeError"]

\* the bounds check tests the lower bound only
linecol_for_offset_no_upper(c, offset) ==
  IF offset < 0 THEN [c EXCEPT !.err = "IndexError"]
  ELSE IF offset = 0 THEN c
  ELSE IF offset > Last(c.offsets) THEN get_data_swapped(c)
  ELSE c

\* LineCache.linecol_for_offset(offset): the cache after the call
linecol_for_offset(c, offset) ==
  IF offset < 0 \/ offset > c.total_bytes THEN [c EXCEPT !.err = "IndexError"]
  ELSE IF offset = 0 THEN c
  ELSE IF offset > Last(c.offsets) THEN get_data_swapped(c)
  ELSE c

\* LineCache.linecol_for_offset(offset): the (line, column) it returns
linecol(c, offset) ==
  IF offset = 0 THEN <<0, 0>>
  ELSE LET line_nb == bisect_left(c.offsets, offset) - 1
       IN <<line_nb, offset - c.offsets[line_nb + 1]>>

\* LineCache.previous_word(offset): the cache after the call
previous_word(c, data, max, offset) ==
  LET d == linecol_for_offset(c, offset)
  IN IF d.err # "ok" THEN d
     ELSE LET e == getitem(d, data, max, linecol(d, offset)[1])
          IN IF e.err # "ok" THEN e
             ELSE LET line == rstrip(e.raw_lines[linecol(d, offset)[1] + 1])
                  IN IF split(Slice(line, 0, linecol(d, offset)[2])) = <<>>
                     THEN [e EXCEPT !.err = "IndexError"]
                     ELSE e

\* LineCache.previous_word(offset): what it returns, <<word>> for a word and
\* <<>> for None (word or None)
word_before(c, d, offset) ==
  LET line == rstrip(d.raw_lines[linecol(c, offset)[1] + 1])
      word == Last(split(Slice(line, 0, linecol(c, offset)[2])))
  IN IF word = <<>> THEN <<>> ELSE <<word>>

\* ------------------------------------------------------- RpcPeer, PluginHost
\* the buffers the core opens and the views it shows them in: view ids are
\* the core's, each belongs to one buffer
HostBuffers == 1..MaxBuffers

BufferViews(b) == IF b = 1 THEN <<1, 2>> ELSE <<b + 1>>

HostViews == 1..(MaxBuffers + 1)

ViewBuffer(v) == IF v <= 2 THEN 1 ELSE v - 1

\* None, where an integer is expected
None == 0 - 1

\* one line of JSON on the pipe.  id = None: the object has no 'id';
\* method = "": it has no 'method'; has_result: it has a 'result'
Message(method, id, view_id, buffer_info, edit, has_result, result) ==
  [method |-> method, id |-> id, view_id |-> view_id, buffer_info |-> buffer_info,
   rev |-> edit.rev, start |-> edit.start, end |-> edit.end,
   new_len |-> edit.new_len, text |-> edit.text,
   has_result |-> has_result, result |-> result]

NoEdit == [rev |-> 0, start |-> 0, end |-> 0, new_len |-> 0, text |-> <<>>]

NoMessage == Message("", None, 0, <<>>, NoEdit, FALSE, <<>>)

\* RpcPeer.has_pending
has_pending(p) == Len(p) # 0

\* the id test left out: any object with an 'id' ends the wait
mainloop_any_id(data, waiting_for) ==
  IF waiting_for # None /\ data.id # None
  THEN [act |-> "return", has_result |-> data.has_result,
        result |-> IF data.has_result THEN data.result ELSE <<>>]
  ELSE [act |-> "append", has_result |-> FALSE, result |-> <<>>]

\* RpcPeer.mainloop(waiting_for): one pass of the loop on the line read.  An
\* object with an 'id' read while waiting is taken for the response: another
\* id raises, and data['result'] is returned (None on KeyError); every other
\* object is appended to pending
mainloop(data, waiting_for) ==
  IF waiting_for # None /\ data.id # None
  THEN IF data.id # waiting_for
       THEN [act |-> "raise", has_result |-> FALSE, result |-> <<>>]
       ELSE [act |-> "return", has_result |-> data.has_result,
             result |-> IF data.has_result THEN data.result ELSE <<>>]
  ELSE [act |-> "append", has_result |-> FALSE, result |-> <<>>]

\* no handler is blocked: mainloop(waiting_for=None) runs
NoFrame == [at |-> "", waiting_for |-> None, data |-> NoMessage, idx |-> 0]

\* LineCache.__init__ as PluginHost._initialize_buffers calls it, without
\* test_data: the lines of the peer's answer to get_data(view_id, 0, rev)
LineCache(answer, buf) ==
  LET lines == IF splitlines(answer) = <<>> THEN << <<>> >> ELSE splitlines(answer)
  IN [raw_lines |-> lines, offsets |-> recalculate_offsets(lines),
      total_bytes |-> buf.buf_size, revision |-> buf.rev,
      buffer_id |-> buf.buffer_id]

\* PluginHost._initialize_buffers: self.views[view_id] = View(view_id, lines)
\* for every view_id in buf['views']
assign_views(vs, buf_views, lines) ==
  [v \in DOMAIN vs |->
     IF \E i \in 1..Len(buf_views) : buf_views[i] = v THEN lines ELSE vs[v]]

\* the cache of the first view, whatever the view
view_lines_first(vs, view_id) == vs[1]

\* PluginHost.update: view = self.views[view_id]; view.lines (0: KeyError)
view_lines(vs, view_id) == vs[view_id]

\* the callback run on the cache as it was, the edit applied after it
update_callback_first(lines, data) ==
  LET c == apply_update(Running(lines.raw_lines, lines.offsets, lines.total_bytes,
                                lines.revision),
                        <<>>, 1, data.rev, data.start, data.end, data.new_len, data.text)
  IN [err |-> c.err,
      lines |-> [lines EXCEPT !.raw_lines = c.raw_lines, !.offsets = c.offsets,
                              !.total_bytes = c.total_bytes, !.revision = c.revision],
      found |-> lines]

\* PluginHost.update: view.lines.apply_update(peer, **params), then
\* self.plugin.update(view, **params): the cache after the edit, and the
\* cache the callback finds.  The core notifies edits of its own buffer, so
\* end <= total_bytes and apply_update sends no request (cache.py:102)
update(lines, data) ==
  LET c == apply_update(Running(lines.raw_lines, lines.offsets, lines.total_bytes,
                                lines.revision),
                        <<>>, 1, data.rev, data.start, data.end, data.new_len, data.text)
      after == [lines EXCEPT !.raw_lines = c.raw_lines, !.offsets = c.offsets,
                             !.total_bytes = c.total_bytes, !.revision = c.revision]
  IN [err |-> c.err, lines |-> after, found |-> after]

\* the core's entry of buffer_info for buffer b: its views, its length and
\* its revision when the message is written
BufferInfo(c, b) ==
  [buffer_id |-> b, views |-> BufferViews(b), buf_size |-> Len(Last(c.hist[b])),
   rev |-> Len(c.hist[b]) - 1]

\* the plugin process as it starts, the core holding the buffers data, and
\* nothing written to the pipe yet
HostStart(data, kind) ==
  /\ stdin = <<>>
  /\ closed = FALSE
  /\ pending = <<>>
  /\ id_counter = 0
  /\ done = FALSE
  /\ frame = NoFrame
  /\ raised = ""
  /\ views = [v \in HostViews |-> 0]
  /\ caches = <<>>
  /\ core = [hist |-> [b \in HostBuffers |-> <<data[b]>>], open |-> {},
             next_id |-> 0, answered |-> 0, updates |-> 0]
  /\ arrived = <<>>
  /\ handled = <<>>
  /\ sent = <<>>
  /\ returned = <<>>
  /\ seen = <<>>
  /\ plugin = kind

\* no plugin process: the cache is used on its own
NoHost == HostStart([b \in HostBuffers |-> <<>>], "Plugin")

\* ----------------------------------------------------------------- actions
Call(name, n, rev, start, end, new_len, text) ==
  [name |-> name, n |-> n, rev |-> rev, start |-> start, end |-> end,
   new_len |-> new_len, text |-> text]

Cache == Running(raw_lines, offsets, total_bytes, revision)

Before ==
  [raw_lines |-> raw_lines, offsets |-> offsets, total_bytes |-> total_bytes,
   revision |-> revision, raw_data |-> raw_data]

NoCall == Call("none", 0, 0, 0, 0, 0, <<>>)

NoPre ==
  [raw_lines |-> << <<>> >>, offsets |-> <<0, 0>>, total_bytes |-> 0,
   revision |-> 0, raw_data |-> <<>>]

\* the caller is between two calls: the last one returned or raised, and was
\* taken note of.  A call that hung never returns.
Idle == call.name = "none"

\* the cache fields and the call's outcome after a call that ran as c
Commit(c, out) ==
  /\ raw_lines' = c.raw_lines
  /\ offsets' = c.offsets
  /\ total_bytes' = c.total_bytes
  /\ revision' = c.revision
  /\ fetches' = c.fetches
  /\ err' = c.err
  /\ ret' = IF c.err = "ok" THEN out ELSE <<>>
  /\ pre' = Before
  /\ UNCHANGED hostvars

\* LineCache.__init__(peer, ..., buf_size, ..., rev, ..., test_data=data[:k]):
\* test_data or peer.get_data(view_id, 0, rev), split into lines
Constructed(data, k, m, buf_size) ==
  /\ raw_data = data
  /\ max_size = m
  /\ LET test_data == Slice(data, 0, k)
         init_data == IF test_data # <<>> THEN test_data
                      ELSE PeerGetData(data, 0, m)
         lines == IF splitlines(init_data) = <<>> THEN << <<>> >>
                  ELSE splitlines(init_data)
     IN /\ raw_lines = lines
        /\ offsets = recalculate_offsets(lines)
        /\ fetches = IF test_data # <<>> THEN <<>>
                     ELSE <<[offset |-> 0, rev |-> 0]>>
        /\ call = Call("init", k, 0, 0, 0, 0, <<>>)
  /\ total_bytes = buf_size
  /\ revision = 0
  /\ err = "ok"
  /\ ret = <<>>
  /\ pre = NoPre

\* A cache of a buffer of the core.  With an empty test_data the first chunk
\* is asked of the peer; on an empty buffer the peer has nothing to return
\* (None) and __init__ raises, so no cache of an empty buffer is ever
\* constructed (edits can empty one later).
Init ==
  \E data \in Str(MaxLen), k \in 0..MaxLen, m \in 1..MaxFetch :
    /\ k <= Len(data)
    /\ data # <<>>
    /\ peer_end = "None"
    /\ Constructed(data, k, m, Len(data))
    /\ NoHost

\* A cache of a buffer in which words are separated by blanks
WordInit ==
  \E data \in StrOver(WordChars, MaxWordLen), k \in 0..MaxWordLen, m \in 1..MaxFetch :
    /\ k <= Len(data)
    /\ data # <<>>
    /\ peer_end = "None"
    /\ Constructed(data, k, m, Len(data))
    /\ NoHost

\* A cache whose peer breaks the protocol: buf_size may announce bytes the
\* peer never serves, and at the end of its data the peer answers None or ''
\* (on an empty answer __init__ keeps the single empty line)
FaultInit ==
  \E data \in Str(MaxFaultLen), k \in 0..MaxFaultLen, m \in 1..MaxFetch,
     short \in 0..1, at_end \in {"None", "empty"} :
    /\ k <= Len(data)
    /\ data = <<>> => at_end = "empty"
    /\ peer_end = at_end
    /\ Constructed(data, k, m, Len(data) + short)
    /\ NoHost

\* cache[idx]
GetItem ==
  \E idx \in 0..(MaxLen + 1) :
    /\ Idle
    /\ \E c \in {getitem(Cache, raw_data, max_size, idx)} :
         Commit(c, IF c.err = "ok" THEN rstrip(c.raw_lines[idx + 1]) ELSE <<>>)
    /\ call' = Call("getitem", idx, 0, 0, 0, 0, <<>>)
    /\ UNCHANGED <<raw_data, max_size, peer_end>>

\* len(cache)
LenCall ==
  /\ Idle
  /\ \E c \in {len_loop(Cache, raw_data, max_size)} :
       Commit(c, <<Len(c.raw_lines)>>)
  /\ call' = Call("len", 0, 0, 0, 0, 0, <<>>)
  /\ UNCHANGED <<raw_data, max_size, peer_end>>

\* cache.get_data(peer, to_offset)
GetData ==
  \E to_offset \in 0..(MaxLen + 1) :
    /\ Idle
    /\ to_offset <= total_bytes + 1
    /\ \E c \in {get_data(Cache, raw_data, max_size, to_offset)} :
         Commit(c, <<>>)
    /\ call' = Call("get_data", to_offset, 0, 0, 0, 0, <<>>)
    /\ UNCHANGED <<raw_data, max_size, peer_end>>

\* cache.linecol_for_offset(offset)
LineCol ==
  \E offset \in (0 - 1)..(MaxLen + 1) :
    /\ Idle
    /\ offset <= total_bytes + 1
    /\ \E c \in {linecol_for_offset(Cache, offset)} :
         Commit(c, IF c.err = "ok" THEN linecol(c, offset) ELSE <<>>)
    /\ call' = Call("linecol_for_offset", offset, 0, 0, 0, 0, <<>>)
    /\ UNCHANGED <<raw_data, max_size, peer_end>>

\* the core replaces raw_data[start:end] by text and notifies the plugin:
\* PluginHost.update -> cache.apply_update(peer, author, rev, start, end, new_len, ...)
Update ==
  \E start \in 0..MaxLen, end \in 0..MaxLen, text \in Str(MaxText) :
    /\ Idle
    /\ start <= end
    /\ end <= Len(raw_data)
    /\ revision < MaxRev
    /\ Len(raw_data) - (end - start) + Len(text) <= MaxLen
    /\ raw_data' = Slice(raw_data, 0, start) \o text \o SliceFrom(raw_data, end)
    /\ \E c \in {apply_update(Cache, raw_data', max_size, revision + 1, start, end,
                              Len(text), text)} :
         Commit(c, <<>>)
    /\ call' = Call("apply_update", 0, revision + 1, start, end, Len(text), text)
    /\ UNCHANGED <<max_size, peer_end>>

\* cache.previous_word(offset)
PrevWord ==
  \E offset \in (0 - 1)..(MaxLen + 1) :
    /\ Idle
    /\ offset <= total_bytes + 1
    /\ \E c \in {previous_word(Cache, raw_data, max_size, offset)} :
         Commit(c, IF c.err = "ok" THEN word_before(Cache, c, offset) ELSE <<>>)
    /\ call' = Call("previous_word", offset, 0, 0, 0, 0, <<>>)
    /\ UNCHANGED <<raw_data, max_size, peer_end>>

\* the core notifies an update that is not one of its buffer: end lies beyond
\* total_bytes, or new_len is not the length of text
BadUpdate ==
  \E start \in 0..MaxLen, end \in 0..(MaxLen + 1), text \in Str(MaxText),
     new_len \in 0..MaxText :
    /\ Idle
    /\ start <= end
    /\ end <= total_bytes + 1
    /\ end > total_bytes \/ new_len # Len(text)
    /\ revision < MaxRev
    /\ \E c \in {apply_update(Cache, raw_data, max_size, revision + 1, start, end,
                              new_len, text)} :
         Commit(c, <<>>)
    /\ call' = Call("apply_update", 0, revision + 1, start, end, new_len, text)
    /\ UNCHANGED <<raw_data, max_size, peer_end>>

\* the caller takes the result (or catches the exception) of the call
Return ==
  /\ call.name # "none"
  /\ err # "hang"
  /\ call' = NoCall
  /\ err' = "ok"
  /\ ret' = <<>>
  /\ fetches' = <<>>
  /\ pre' = NoPre
  /\ UNCHANGED <<raw_data, max_size, peer_end, raw_lines, offsets, total_bytes,
                 revision>>
  /\ UNCHANGED hostvars

Next == GetItem \/ LenCall \/ GetData \/ LineCol \/ Update \/ Return

Spec == Init /\ [][Next]_vars

\* the queries of a plugin that looks up words, on a buffer that is not edited
WordNext == GetItem \/ LenCall \/ GetData \/ LineCol \/ PrevWord \/ Return

WordSpec == WordInit /\ [][WordNext]_vars

\* the cache served by a core that breaks the protocol
FaultNext == Next \/ PrevWord \/ BadUpdate

FaultSpec == FaultInit /\ [][FaultNext]_vars

\* ------------------------------------------------------- the plugin process
\* the cache on its own is not in use while the plugin process runs
NoCache == UNCHANGED vars

\* the process runs: no exception ended it and mainloop did not return
Alive == raised = "" /\ ~done

\* the core writes a line to the pipe
Write(data) ==
  /\ raised = ""
  /\ ~closed
  /\ stdin' = Append(stdin, data)

\* the core starts the plugin: initialize, with one buffer, or with several
\* for a GlobalPlugin
CoreInitialize ==
  \E n \in 1..MaxBuffers :
    /\ core.open = {}
    /\ n > 1 => plugin = "GlobalPlugin"
    /\ Write(Message("initialize", None, 0, [b \in 1..n |-> BufferInfo(core, b)],
                     NoEdit, FALSE, <<>>))
    /\ core' = [core EXCEPT !.open = 1..n]
    /\ UNCHANGED <<closed, pending, id_counter, done, frame, raised, views, caches,
                   arrived, handled, sent, returned, seen, plugin>>
    /\ NoCache

\* the core opens another buffer: new_buffer, to a GlobalPlugin
CoreNewBuffer ==
  \E b \in HostBuffers \ core.open :
    /\ core.open # {}
    /\ plugin = "GlobalPlugin"
    /\ Write(Message("new_buffer", None, 0, <<BufferInfo(core, b)>>, NoEdit, FALSE, <<>>))
    /\ core' = [core EXCEPT !.open = @ \cup {b}]
    /\ UNCHANGED <<closed, pending, id_counter, done, frame, raised, views, caches,
                   arrived, handled, sent, returned, seen, plugin>>
    /\ NoCache

\* the core edits a buffer it opened and sends the update request of one of
\* the buffer's views, under its next request id
CoreUpdate ==
  \E v \in HostViews, start \in 0..MaxHostLen, end \in 0..MaxHostLen,
     text \in Str(MaxText) :
    LET b == ViewBuffer(v)
        data == Last(core.hist[b])
        after == Slice(data, 0, start) \o text \o SliceFrom(data, end)
    IN /\ b \in core.open
       /\ core.updates < MaxUpdates
       /\ start <= end /\ end <= Len(data)
       /\ Len(after) <= MaxHostLen
       /\ Write(Message("update", core.next_id, v, <<>>,
                        [rev |-> Len(core.hist[b]), start |-> start, end |-> end,
                         new_len |-> Len(text), text |-> text], FALSE, <<>>))
       /\ core' = [core EXCEPT !.hist[b] = Append(@, after), !.next_id = @ + 1,
                               !.updates = @ + 1]
       /\ UNCHANGED <<closed, pending, id_counter, done, frame, raised, views, caches,
                      arrived, handled, sent, returned, seen, plugin>>
       /\ NoCache

\* the core answers the oldest request it has not answered: the bytes of the
\* view's buffer from the offset asked (far fewer than MAX_FETCH_SIZE), or
\* the selections of the view
CoreRespond ==
  /\ core.answered < Len(sent)
  /\ LET req == sent[core.answered + 1]
     IN Write(Message("", req.id, 0, <<>>, NoEdit, TRUE,
                      IF req.method = "get_data"
                      THEN SliceFrom(Last(core.hist[ViewBuffer(req.view_id)]), req.offset)
                      ELSE <<>>))
  /\ core' = [core EXCEPT !.answered = @ + 1]
  /\ UNCHANGED <<closed, pending, id_counter, done, frame, raised, views, caches,
                 arrived, handled, sent, returned, seen, plugin>>
  /\ NoCache

\* the core closes the pipe
CoreClose ==
  /\ raised = ""
  /\ ~closed
  /\ core.open # {}
  /\ closed' = TRUE
  /\ UNCHANGED <<stdin, pending, id_counter, done, frame, raised, views, caches, core,
                 arrived, handled, sent, returned, seen, plugin>>
  /\ NoCache

\* RpcPeer.send_rpc_sync as called by the handler of data: the request is
\* written under the next id and the handler blocks in mainloop(waiting_for)
SendRpcSync(at, data, idx, method, view_id, offset) ==
  /\ sent' = Append(sent, [id |-> id_counter, method |-> method, view_id |-> view_id,
                           offset |-> offset])
  /\ id_counter' = id_counter + 1
  /\ frame' = [at |-> at, waiting_for |-> id_counter, data |-> data, idx |-> idx]

\* PluginHost._initialize_buffers at buffer idx of buffer_info: LineCache(peer,
\* **buf) asks the peer for the first chunk (cache.py:35)
InitializeBuffer(data, idx) ==
  SendRpcSync("init", data, idx, "get_data", data.buffer_info[idx].views[1], 0)

\* mainloop(waiting_for=None) reads a line: the object is appended to pending
ReadLine ==
  /\ Alive
  /\ frame = NoFrame
  /\ ~has_pending(pending)
  /\ stdin # <<>>
  /\ mainloop(Head(stdin), None).act = "append"
  /\ stdin' = Tail(stdin)
  /\ arrived' = Append(arrived, Head(stdin))
  /\ pending' = Append(pending, Head(stdin))
  /\ UNCHANGED <<closed, id_counter, done, frame, raised, views, caches, core,
                 handled, sent, returned, seen, plugin>>
  /\ NoCache

\* mainloop(waiting_for=None): self.handle(self.pending.popleft()) finds the
\* handler of data['method']
Dispatch(method) ==
  /\ raised = ""
  /\ frame = NoFrame
  /\ has_pending(pending)
  /\ Head(pending).method = method
  /\ pending' = Tail(pending)
  /\ handled' = Append(handled, Head(pending))
  /\ UNCHANGED <<stdin, closed, done, core, arrived, returned, plugin>>
  /\ NoCache

\* PluginHost.initialize, up to the first synchronous request of
\* _initialize_buffers
HandleInitialize ==
  /\ Dispatch("initialize")
  /\ InitializeBuffer(Head(pending), 1)
  /\ UNCHANGED <<raised, views, caches, seen>>

\* PluginHost.new_buffer, up to the synchronous request of _initialize_buffers
HandleNewBuffer ==
  /\ Dispatch("new_buffer")
  /\ IF plugin # "GlobalPlugin" \/ Len(Head(pending).buffer_info) # 1
     THEN /\ raised' = "AssertionError"
          /\ UNCHANGED <<id_counter, frame, views, caches, sent, seen>>
     ELSE /\ InitializeBuffer(Head(pending), 1)
          /\ UNCHANGED <<raised, views, caches, seen>>

\* PluginHost.update, up to its return or to the synchronous request of a
\* callback that asks for the selections of the view (View.get_selections)
HandleUpdate ==
  \E selections \in BOOLEAN :
    /\ Dispatch("update")
    /\ IF view_lines(views, Head(pending).view_id) = 0
       THEN /\ raised' = "KeyError"
            /\ UNCHANGED <<id_counter, frame, views, caches, sent, seen>>
       ELSE \E u \in {update(caches[view_lines(views, Head(pending).view_id)],
                             Head(pending))} :
              IF u.err # "ok"
              THEN /\ raised' = u.err
                   /\ UNCHANGED <<id_counter, frame, views, caches, sent, seen>>
              ELSE /\ caches' = [caches EXCEPT
                                  ![view_lines(views, Head(pending).view_id)] = u.lines]
                   /\ seen' = Append(seen, [data |-> Head(pending), found |-> u.found])
                   /\ IF selections
                      THEN SendRpcSync("callback", Head(pending), 0, "get_selections",
                                       Head(pending).view_id, 0)
                      ELSE UNCHANGED <<id_counter, frame, sent>>
                   /\ UNCHANGED <<raised, views>>

\* RpcPeer.handle
Handle == HandleInitialize \/ HandleNewBuffer \/ HandleUpdate

\* send_rpc_sync returned to the handler blocked at fr: LineCache.__init__
\* splits the answer (None.splitlines raises), the views of the buffer get
\* the cache, and _initialize_buffers goes on to the next buffer;
\* View.get_selections reads selections['selections'] (None raises) and the
\* callback returns
Resume(fr, has_result, result) ==
  IF ~has_result
  THEN /\ raised' = IF fr.at = "init" THEN "AttributeError" ELSE "TypeError"
       /\ frame' = NoFrame
       /\ UNCHANGED <<id_counter, views, caches, sent>>
  ELSE IF fr.at = "init"
  THEN LET buf == fr.data.buffer_info[fr.idx]
       IN /\ caches' = Append(caches, LineCache(result, buf))
          /\ views' = assign_views(views, buf.views, Len(caches) + 1)
          /\ IF fr.idx < Len(fr.data.buffer_info)
             THEN /\ InitializeBuffer(fr.data, fr.idx + 1)
                  /\ UNCHANGED raised
             ELSE /\ frame' = NoFrame
                  /\ UNCHANGED <<id_counter, raised, sent>>
  ELSE /\ frame' = NoFrame
       /\ UNCHANGED <<id_counter, raised, views, caches, sent>>

\* mainloop(waiting_for=req_id) reads a line
ReadWaiting ==
  /\ Alive
  /\ frame # NoFrame
  /\ stdin # <<>>
  /\ stdin' = Tail(stdin)
  /\ arrived' = Append(arrived, Head(stdin))
  /\ LET m == mainloop(Head(stdin), frame.waiting_for)
     IN CASE m.act = "append" ->
               /\ pending' = Append(pending, Head(stdin))
               /\ UNCHANGED <<id_counter, frame, raised, views, caches, sent, returned>>
          [] m.act = "raise" ->
               /\ raised' = "Exception"
               /\ UNCHANGED <<pending, id_counter, frame, views, caches, sent, returned>>
          [] m.act = "return" ->
               /\ returned' = Append(returned, [req_id |-> frame.waiting_for,
                                                data |-> Head(stdin),
                                                has_result |-> m.has_result,
                                                result |-> m.result])
               /\ Resume(frame, m.has_result, m.result)
               /\ UNCHANGED pending
  /\ UNCHANGED <<closed, done, core, handled, seen, plugin>>
  /\ NoCache

\* readline returns '' at the end of the pipe: done is set and mainloop
\* returns None, to its caller or to the handler waiting in send_rpc_sync
ReadEof ==
  /\ Alive
  /\ ~has_pending(pending) \/ frame # NoFrame
  /\ stdin = <<>>
  /\ closed
  /\ done' = TRUE
  /\ IF frame = NoFrame
     THEN UNCHANGED <<id_counter, frame, raised, views, caches, sent, returned>>
     ELSE /\ returned' = Append(returned, [req_id |-> frame.waiting_for,
                                           data |-> NoMessage,
                                           has_result |-> FALSE, result |-> <<>>])
          /\ Resume(frame, FALSE, <<>>)
  /\ UNCHANGED <<stdin, closed, pending, core, arrived, handled, seen, plugin>>
  /\ NoCache

\* A plugin started by the core, which holds MaxBuffers buffers of the same
\* content
HostInit ==
  \E data \in Str(MaxHostLen), kind \in {"Plugin", "GlobalPlugin"} :
    /\ HostStart([b \in HostBuffers |-> data], kind)
    /\ peer_end = "None"
    /\ Constructed(<<"a">>, 1, 1, 1)

HostNext ==
  \/ CoreInitialize \/ CoreNewBuffer \/ CoreUpdate \/ CoreRespond \/ CoreClose
  \/ ReadLine \/ Handle \/ ReadWaiting \/ ReadEof

HostSpec == HostInit /\ [][HostNext]_allvars

\* ------------------------------------------------------------------ claims
\* the cached high-water mark
HighWater == Last(offsets)

\* the lines of a buffer, as a cache built from the whole of it holds them
TrueLines(data) ==
  IF splitlines(data) = <<>> THEN << <<>> >> ELSE splitlines(data)

\* a line without its terminator
Unterminated(l) == IF l # <<>> /\ Last(l) = NL THEN ButLast(l) ELSE l

\* before the last call the cache held the whole buffer
WasFull ==
  /\ Last(pre.offsets) = pre.total_bytes
  /\ Concat(pre.raw_lines) = pre.raw_data

\* the last call was apply_update and it returned
Applied == call.name = "apply_update" /\ err = "ok"

\* C1: in every reachable state offsets[0] = 0, offsets is non-decreasing and
\* offsets[i+1] - offsets[i] = len(lines[i]) for every index i of lines
C1_OffsetsConsistent ==
  /\ offsets[1] = 0
  /\ \A i \in 1..(Len(offsets) - 1) : offsets[i] <= offsets[i + 1]
  /\ \A i \in 1..Len(raw_lines) :
       /\ i + 1 <= Len(offsets)
       /\ offsets[i + 1] - offsets[i] = Len(raw_lines[i])

\* C2: in every reachable state len(offsets) = len(lines) + 1
C2_OffsetsLength == Len(offsets) = Len(raw_lines) + 1

\* C3: in every reachable state the high-water mark offsets[last] is at most
\* total_bytes (has_missing() is by definition offsets[last] # total_bytes)
C3_HighWaterWithinTotal == HighWater <= total_bytes

\* C4: in every reachable state the concatenation of the cached fragments is
\* the first offsets[last] bytes of the true buffer
C4_CachedPrefixMatches ==
  Concat(raw_lines) = Slice(raw_data, 0, HighWater)

C6_ExtendsBeforeSplice ==
  (Applied /\ Last(pre.offsets) < call.end /\ call.end <= pre.total_bytes) =>
    /\ fetches # <<>>
    /\ fetches[1].offset = Last(pre.offsets)
    /\ Last(pre.offsets) + Len(fetches) * max_size >= call.end

\* C7: after a successful apply_update(new_revision, start, end, text),
\* revision = new_revision and total_bytes is the old total_bytes
\* + (start - end) + len(text)
C7_RevisionAndTotal ==
  Applied =>
    /\ revision = call.rev
    /\ total_bytes = pre.total_bytes + (call.start - call.end) + Len(call.text)

\* C7 witness: an edit that lies wholly beyond the cached prefix, deleting
\* bytes and inserting text, was applied
C7_Witness ==
  /\ Applied
  /\ Last(pre.offsets) < call.start /\ call.start < call.end
  /\ call.text # <<>>

\* C8: on a cache that was never edited, line(i) for i below the true line
\* count returns the i-th line of the true buffer without its terminator
C8_LineIsTrueLine ==
  (call.name = "getitem" /\ revision = 0
     /\ call.n < Len(TrueLines(raw_data))) =>
    /\ err = "ok"
    /\ ret = Unterminated(TrueLines(raw_data)[call.n + 1])

\* C9: on a cache that was never edited, line(i) for i at or beyond the true
\* line count fails out-of-range and returns no line
C9_LineOutOfRange ==
  (call.name = "getitem" /\ revision = 0
     /\ call.n >= Len(TrueLines(raw_data))) =>
    err = "IndexError"

\* C10: on a cache that was never edited, line_count() returns the number of
\* lines of the true buffer, and has_missing() is false when it returns
C10_LineCount ==
  (call.name = "len" /\ revision = 0) =>
    /\ err = "ok"
    /\ ret = <<Len(TrueLines(raw_data))>>
    /\ HighWater = total_bytes

\* the last call was linecol_for_offset, with an offset within the buffer
Located ==
  call.name = "linecol_for_offset" /\ 0 <= call.n /\ call.n <= pre.total_bytes

\* C11: for 0 <= offset <= total_bytes, locate(offset) returns (line_nb, col)
\* with offsets[line_nb] <= offset < offsets[line_nb+1] (the last line open-
\* ended at its end) and col = offset - offsets[line_nb]; an offset on a line
\* boundary is column 0 of the line that starts there.  Stated for the
\* offsets the cache already holds; C13 is about the offsets beyond them
C11_LocateLineCol ==
  (Located /\ call.n <= Last(pre.offsets)) =>
    /\ err = "ok"
    /\ Len(ret) = 2
    /\ ret[1] \in 0..(Len(offsets) - 2)
    /\ offsets[ret[1] + 1] <= call.n
    /\ call.n < offsets[ret[1] + 2] \/ ret[1] = Len(offsets) - 2
    /\ ret[2] = call.n - offsets[ret[1] + 1]

\* C12: locate(offset) with offset < 0 or offset > total_bytes fails out of
\* bounds, gives no position, sends no request to the peer and leaves lines,
\* offsets, total_bytes and revision as they were
C12_LocateOutOfBounds ==
  (call.name = "linecol_for_offset" /\ (call.n < 0 \/ call.n > pre.total_bytes)) =>
    /\ err = "IndexError"
    /\ ret = <<>>
    /\ fetches = <<>>
    /\ raw_lines = pre.raw_lines
    /\ offsets = pre.offsets
    /\ total_bytes = pre.total_bytes
    /\ revision = pre.revision

\* C12 witness: locate one past the end of a buffer that was edited and is
\* only partly cached was refused
C12_Witness ==
  /\ call.name = "linecol_for_offset"
  /\ call.n = pre.total_bytes + 1
  /\ err = "IndexError"
  /\ pre.revision > 0
  /\ Last(pre.offsets) < pre.total_bytes

\* the (line, column) of an offset in a buffer: the line that starts at or
\* before the offset, the last line taking the offset at the end of the buffer
RECURSIVE TrueLineCol(_, _, _)
TrueLineCol(lines, offset, line_nb) ==
  IF Len(lines) = 1 \/ offset < Len(Head(lines)) THEN <<line_nb, offset>>
  ELSE TrueLineCol(Tail(lines), offset - Len(Head(lines)), line_nb + 1)

\* C13: locate(offset) with offsets[last] < offset <= total_bytes extends the
\* cache by one or more fetches until offsets[last] >= offset and returns the
\* (line, col) of the offset in the true buffer
C13_LocateExtends ==
  (Located /\ Last(pre.offsets) < call.n) =>
    /\ err = "ok"
    /\ fetches # <<>>
    /\ HighWater >= call.n
    /\ ret = TrueLineCol(TrueLines(raw_data), call.n, 0)

\* the offset at which the line of a buffer that holds an offset starts
LineStart(data, offset) ==
  CHOOSE i \in 0..offset :
    /\ i = 0 \/ data[i] = NL
    /\ \A j \in (i + 1)..offset : data[j] # NL

\* the bytes of a buffer that precede an offset on its line
LineBefore(data, offset) == Slice(data, LineStart(data, offset), offset)

\* a word ends at or before the offset on its line
HasWordBefore(data, offset) ==
  \E i \in 1..Len(LineBefore(data, offset)) :
    LineBefore(data, offset)[i] \notin Whitespace

\* the last call was previous_word, with an offset within the buffer
WordAsked ==
  call.name = "previous_word" /\ 0 <= call.n /\ call.n <= pre.total_bytes

\* C14: previous_word(offset) returns None and does not raise when no
\* non-whitespace byte precedes offset on its line (offset 0, the start of a
\* line, or only whitespace before it).  Stated for the offsets the cache
\* already holds
C14_NoWordIsNone ==
  (WordAsked /\ call.n <= Last(pre.offsets) /\ ~HasWordBefore(raw_data, call.n)) =>
    /\ err = "ok"
    /\ ret = <<>>

\* C15: for an in-bounds offset with a non-whitespace byte before it on its
\* line, previous_word(offset) returns the last whitespace-delimited token of
\* the line's content up to the offset
C15_WordSoFar ==
  (WordAsked /\ HasWordBefore(raw_data, call.n)) =>
    /\ err = "ok"
    /\ ret = <<Last(split(LineBefore(raw_data, call.n)))>>

\* C16: extending never fabricates a line break at a chunk boundary: on a
\* cache that was never edited, built from a prefix and extended chunk by
\* chunk up to the prefix P of the buffer, lines and offsets are those of a
\* cache built from P directly
C16_ChunkingInvisible ==
  revision = 0 =>
    /\ raw_lines = TrueLines(Slice(raw_data, 0, HighWater))
    /\ offsets = recalculate_offsets(TrueLines(Slice(raw_data, 0, HighWater)))

\* the last call was get_data, up to an offset within the buffer
Extended == call.name = "get_data" /\ call.n <= pre.total_bytes

\* C17: get_data(to_offset) with to_offset <= total_bytes, served by a peer
\* that returns at least one byte per request, ends after finitely many
\* requests (at most one per missing byte, each from the high-water mark the
\* one before left), and when it returns offsets[last] >= to_offset
C17_ExtendTerminates ==
  Extended =>
    /\ err # "hang"
    /\ Len(fetches) <= Max(call.n - Last(pre.offsets), 0)
    /\ \A i \in 1..Len(fetches) : fetches[i].offset >= Last(pre.offsets) + (i - 1)
    /\ err = "ok" => HighWater >= call.n

\* C17 witness: an extension that took more than one request returned
C17_Witness ==
  /\ Extended
  /\ err = "ok"
  /\ Len(fetches) >= 2
  /\ HighWater >= call.n

\* the calls that may send requests to the peer
Operations ==
  {"get_data", "getitem", "len", "linecol_for_offset", "previous_word",
   "apply_update"}

\* during the last call the peer was asked for bytes it does not have, at a
\* high-water mark that was not total_bytes: it had no data to return while
\* the cache reported missing bytes
Starved ==
  /\ call.name \in Operations
  /\ \E i \in 1..Len(fetches) :
       /\ fetches[i].offset >= Len(raw_data)
       /\ fetches[i].offset # pre.total_bytes

\* C18: when the peer returns no data (an empty answer or end-of-data) while
\* the cache reports missing bytes, the operation in progress aborts with an
\* error: it neither returns as if served nor loops for ever
C18_StarvedAborts == Starved => err \notin {"ok", "hang"}

\* the last call was apply_update and it raised
UpdateFailed == call.name = "apply_update" /\ err \notin {"ok", "hang"}

\* the cache is as it was before the last call
CacheUntouched ==
  /\ revision = pre.revision
  /\ total_bytes = pre.total_bytes
  /\ raw_lines = pre.raw_lines
  /\ offsets = pre.offsets

\* C19: no edit is partially applied: when apply_update fails (length
\* mismatch, or a failed fetch while extending up to end), revision,
\* total_bytes, lines and offsets have the values they had before the call
C19_FailedUpdateLeavesCache == UpdateFailed => CacheUntouched

\* C20: apply_update with a text whose length is not the declared new_len (an
\* absent text counting as length 0) fails with an error and is not applied
C20_LengthMismatchRefused ==
  (call.name = "apply_update" /\ Len(call.text) # call.new_len) =>
    /\ err = "AssertionError"
    /\ CacheUntouched

\* C20 witness: an update that declares one byte and carries no text, over a
\* span of cached bytes of a partly cached buffer, was refused
C20_Witness ==
  /\ call.name = "apply_update"
  /\ call.text = <<>> /\ call.new_len = 1
  /\ call.start < call.end /\ call.end <= Last(pre.offsets)
  /\ Last(pre.offsets) < pre.total_bytes
  /\ err = "AssertionError"

\* C21: constructing the cache from an initial chunk sends no request to the
\* peer, for every initial chunk: the empty one and strict prefixes of the
\* buffer included
C21_ConstructionFetchesNothing == call.name = "init" => fetches = <<>>

\* C22: locate(offset) called twice with no edit in between returns the same
\* (line, col) both times; the second call, made on the cache as the first
\* left it, sends no request and leaves lines and offsets unchanged
C22_LocateTwice ==
  Located =>
    /\ err = "ok"
    /\ linecol_for_offset(Cache, call.n).err = "ok"
    /\ linecol_for_offset(Cache, call.n).fetches = <<>>
    /\ linecol_for_offset(Cache, call.n).raw_lines = raw_lines
    /\ linecol_for_offset(Cache, call.n).offsets = offsets
    /\ linecol(linecol_for_offset(Cache, call.n), call.n) = ret

\* C23: lines is never empty; an empty initial chunk gives exactly one empty
\* fragment with offsets [0, 0]; an apply_update that deletes the whole
\* buffer leaves total_bytes = 0 and exactly one empty fragment
C23_LinesNeverEmpty ==
  /\ Len(raw_lines) >= 1
  /\ (call.name = "init" /\ call.n = 0) =>
       (raw_lines = << <<>> >> /\ offsets = <<0, 0>>)
  /\ (Applied /\ call.start = 0 /\ call.end = pre.total_bytes /\ call.text = <<>>) =>
       (total_bytes = 0 /\ raw_lines = << <<>> >>)

\* the offset at which line i (0-based) of a buffer starts
RECURSIVE LineOffset(_, _)
LineOffset(lines, i) ==
  IF i <= 0 \/ lines = <<>> THEN 0
  ELSE Len(Head(lines)) + LineOffset(Tail(lines), i - 1)

\* C24: line(i) for a line that is not cached sends just the requests needed
\* to reach line i and none once line i is in the cache: no request starts at
\* or beyond the end of line i, and the bytes after the chunk that holds the
\* end of line i stay unfetched
C24_FetchesJustEnough ==
  (call.name = "getitem" /\ revision = 0 /\ err = "ok"
     /\ call.n >= Len(pre.raw_lines)) =>
    \A k \in 1..Len(fetches) :
      fetches[k].offset < LineOffset(TrueLines(raw_data), call.n + 1)

C26_EditFrame ==
  Applied =>
    /\ \A i \in 1..changed_idx(pre.offsets, call.start) :
         /\ raw_lines[i] = pre.raw_lines[i]
         /\ offsets[i] = pre.offsets[i]
    /\ \A j \in (changed_idx(pre.offsets, call.end) + 2)..Len(pre.raw_lines) :
         /\ j + Len(raw_lines) - Len(pre.raw_lines) \in 1..Len(raw_lines)
         /\ raw_lines[j + Len(raw_lines) - Len(pre.raw_lines)] = pre.raw_lines[j]
         /\ j \in 1..Len(pre.offsets) =>
              /\ j + Len(raw_lines) - Len(pre.raw_lines) \in 1..Len(offsets)
              /\ offsets[j + Len(raw_lines) - Len(pre.raw_lines)] =
                   pre.offsets[j] + (call.start - call.end) + Len(call.text)

\* C27: every fragment but the last ends with the terminator, no fragment
\* holds a terminator before its last byte, and only the last fragment may
\* be empty
C27_FragmentsAreLines ==
  \A i \in 1..Len(raw_lines) :
    /\ i < Len(raw_lines) => (raw_lines[i] # <<>> /\ Last(raw_lines[i]) = NL)
    /\ \A j \in 1..(Len(raw_lines[i]) - 1) : raw_lines[i][j] # NL

\* the last call was apply_update with 0 <= start <= end <= total_bytes and a
\* text of the declared length
ValidEdit ==
  /\ call.name = "apply_update"
  /\ 0 <= call.start /\ call.start <= call.end /\ call.end <= pre.total_bytes
  /\ Len(call.text) = call.new_len

\* C28: for every edit with 0 <= start <= end <= total_bytes,
\* 0 <= first_changed_idx <= last_changed_idx <= len(lines) - 1, also when
\* end is the high-water mark or total_bytes, and apply_update does not index
\* lines or offsets out of bounds
C28_ChangedIdxInBounds ==
  ValidEdit =>
    /\ err = "ok"
    /\ 0 <= changed_idx(pre.offsets, call.start)
    /\ changed_idx(pre.offsets, call.start) <= changed_idx(pre.offsets, call.end)
    /\ changed_idx(pre.offsets, call.end) <= Len(pre.raw_lines) - 1

\* C28 witness: an edit that ends at total_bytes, beyond the high-water mark
\* of a cache of two or more lines, was applied
C28_Witness ==
  /\ ValidEdit /\ err = "ok"
  /\ Len(pre.raw_lines) >= 2
  /\ call.start < call.end
  /\ Last(pre.offsets) < call.end /\ call.end = pre.total_bytes

\* C29: every request asks for the bytes from the high-water mark offsets[last]
\* and carries the revision of the cache; the requests of one call have
\* strictly increasing offsets (each starts where the answer to the one
\* before ended); the requests of apply_update's extension are sent before
\* revision is set, so they carry the revision the cache had before the call
C29_FetchDiscipline ==
  (call.name \in Operations /\ fetches # <<>>) =>
    /\ fetches[1].offset = Last(pre.offsets)
    /\ \A i \in 1..Len(fetches) : fetches[i].rev = pre.revision
    /\ \A i \in 1..(Len(fetches) - 1) :
         /\ fetches[i].offset < fetches[i + 1].offset
         /\ fetches[i + 1].offset =
              fetches[i].offset + Len(PeerGetData(raw_data, fetches[i].offset, max_size))

\* the last call was cache[i] for a line of the buffer that was not cached, or
\* len(cache), on a cache with missing bytes: it needed more data
NeededMore ==
  /\ has_missing(pre)
  /\ \/ call.name = "len"
     \/ /\ call.name = "getitem"
        /\ call.n >= Len(pre.raw_lines)
        /\ call.n < Len(TrueLines(raw_data))

\* C30: after an apply_update on a partly cached buffer that left the last
\* cached fragment empty (the whole cached prefix was deleted), a cache[i] or
\* len(cache) that needs more data extends the cache without error and
\* returns the line, or the number of lines, of the edited buffer
C30_ExtendsAfterEdit ==
  (NeededMore /\ pre.revision > 0 /\ Last(pre.raw_lines) = <<>>) =>
    /\ err = "ok"
    /\ call.name = "len" => ret = <<Len(TrueLines(raw_data))>>
    /\ call.name = "getitem" => ret = Unterminated(TrueLines(raw_data)[call.n + 1])

\* C31: the line table does not depend on the edit history: after an
\* apply_update on a fully cached buffer, lines and offsets (and so the line
\* count) are those of a cache constructed from the resulting buffer, also
\* when the buffer ends with a terminator or the edit deleted the whole last
\* line
C31_HistoryIndependent ==
  (Applied /\ WasFull) =>
    /\ raw_lines = TrueLines(raw_data)
    /\ offsets = recalculate_offsets(TrueLines(raw_data))
    /\ Len(raw_lines) = Len(TrueLines(raw_data))

\* the message RpcPeer.handle was last called with
LastHandled == Last(handled)

\* C32: a cache is never shared across buffers: views of different buffers
\* never reference the same cache (each view references a cache of its own
\* buffer), and an update for a view changes only the cache of that view's
\* buffer: the caches of all other buffers stay as they were
C32_IndexPerBuffer ==
  [][/\ \A v, w \in HostViews :
          (views'[v] # 0 /\ views'[w] # 0 /\ ViewBuffer(v) # ViewBuffer(w)) =>
            /\ views'[v] # views'[w]
            /\ caches'[views'[v]].buffer_id = ViewBuffer(v)
     /\ (Len(handled') > Len(handled) /\ Last(handled').method = "update") =>
          \A c \in 1..Len(caches) :
            caches[c].buffer_id # ViewBuffer(Last(handled').view_id) =>
              caches'[c] = caches[c]]_allvars

\* C32 witness: with the caches of two buffers in place, an update for the
\* view of the second buffer was handled and changed that buffer's cache
\* while the first buffer's cache is at the revision it was constructed at
C32_Witness ==
  /\ raised = ""
  /\ views[1] # 0 /\ views[3] # 0
  /\ handled # <<>> /\ LastHandled.method = "update" /\ LastHandled.view_id = 3
  /\ LastHandled.start < LastHandled.end
  /\ caches[views[3]].revision = 1
  /\ caches[views[1]].revision = 0

\* the update requests among the lines read, in the order they were read
Updates(lines) == SelectSeq(lines, LAMBDA m : m.method = "update")

\* C33: for every update the host applies the edit to the view's cache
\* before it calls the plugin's update callback: the callback finds the
\* revision, total_bytes and lines of the buffer after that edit; the edits
\* are applied one at a time in the order they were delivered, none skipped
C33_EditBeforeCallback ==
  /\ Len(seen) <= Len(Updates(arrived))
  /\ \A k \in 1..Len(seen) :
       /\ seen[k].data = Updates(arrived)[k]
       /\ seen[k].found.revision = seen[k].data.rev
       /\ seen[k].found.total_bytes =
            Len(core.hist[ViewBuffer(seen[k].data.view_id)][seen[k].data.rev + 1])
       /\ Concat(seen[k].found.raw_lines) =
            core.hist[ViewBuffer(seen[k].data.view_id)][seen[k].data.rev + 1]

\* C33 witness: two updates of the same buffer were delivered and the second
\* callback found the buffer of revision 2, which differs from that of
\* revision 1
C33_Witness ==
  /\ Len(seen) = 2
  /\ ViewBuffer(seen[1].data.view_id) = ViewBuffer(seen[2].data.view_id)
  /\ seen[2].found.revision = 2
  /\ seen[2].found.raw_lines # seen[1].found.raw_lines
  /\ seen[1].found.raw_lines # caches[1].raw_lines \/ Len(caches) > 1

\* the notifications and requests among the lines read, in the order they
\* were read
Incoming(lines) == SelectSeq(lines, LAMBDA m : m.method # "")

\* C34: RPCs that arrive while the peer waits in send_rpc_sync are queued,
\* not dropped and not taken for the response: every notification and every
\* request read was appended to pending and is handled in arrival order (the
\* ones read so far are those handled followed by those pending)
C34_IncomingQueued == Incoming(arrived) = handled \o pending

====
